---- MODULE Spec2Model ----
(***************************************************************************)
(* Model of chromosight/utils/plotting.py: four rendering functions        *)
(* (pattern_plot, distance_plot, pileup_plot, plot_whole_matrix) and the   *)
(* _check_datashader decorator, run against the global pyplot state.       *)
(*                                                                         *)
(* One action is one complete call.  A call leaves behind: how it ended    *)
(* (result), the pyplot calls it made in order (events), what it printed   *)
(* (stdout), its local variables when it ended (locals), the caller's      *)
(* objects as they are after the call (caller), and the number of figures  *)
(* open in the global pyplot state (figs).  installed tells whether the    *)
(* datashader package can be imported, ds what the module global ds is     *)
(* bound to.                                                               *)
(***************************************************************************)
EXTENDS Integers, Sequences, FiniteSets, TLC

VARIABLES fn, args, result, events, stdout, locals, caller, figs, installed, ds

vars == <<fn, args, result, events, stdout, locals, caller, figs, installed, ds>>

(***************************************************************************)
(* Bounds of the explored inputs.                                          *)
(***************************************************************************)
MaxRecs == 2        \* records per pattern type handed to pattern_plot
MaxDim == 2         \* rows / columns of the matrix of plot_whole_matrix
MaxPat == 1         \* rows of the patterns table of plot_whole_matrix
MaxMats == 2        \* matrices handed to distance_plot
MaxLabels == 2      \* labels handed to distance_plot

(***************************************************************************)
(* Python values that the code compares or adds: None, int, str.           *)
(***************************************************************************)
PyNone == [k |-> "none", i |-> 0, s |-> ""]
PyInt(n) == [k |-> "int", i |-> n, s |-> ""]
PyStr(t) == [k |-> "str", i |-> 0, s |-> t]
NA == PyStr("NA")

Min(a, b) == IF a < b THEN a ELSE b
Max(a, b) == IF a > b THEN a ELSE b

\* str() of a non-negative int
Digit(d) ==
  CASE d = 0 -> "0" [] d = 1 -> "1" [] d = 2 -> "2" [] d = 3 -> "3"
    [] d = 4 -> "4" [] d = 5 -> "5" [] d = 6 -> "6" [] d = 7 -> "7"
    [] d = 8 -> "8" [] d = 9 -> "9"

RECURSIVE str(_)
str(n) == IF n < 10 THEN Digit(n) ELSE str(n \div 10) \o Digit(n % 10)

\* pathlib: a relative path is its sequence of parts; Path() has none.
Path(p) == IF p = PyNone THEN <<>> ELSE <<p.s>>
PathJoin(a, b) == a \o b

SeqsUpTo(S, n) == UNION {[1..j -> S] : j \in 0..n}

(***************************************************************************)
(* Records of the model.                                                   *)
(***************************************************************************)
\* One pyplot call: x, y carry the data arguments, path the target of savefig.
Ev(op, x, y, path) == [op |-> op, x |-> x, y |-> y, path |-> path]
Ev0(op) == Ev(op, PyNone, PyNone, <<>>)

\* the events of evs whose op is in ops, in order
OpsOf(evs, ops) == SelectSeq(evs, LAMBDA e : e.op \in ops)

\* What a call leaves behind.
Effect(res, evs, printed, loc, cal) ==
  [result |-> res, events |-> evs, stdout |-> printed, locals |-> loc, caller |-> cal]

\* The caller's objects a call was handed: the matrix (or matrices) and the
\* pattern collection (PyNone when the function takes none).
Objs(mat, patterns) == [mat |-> mat, patterns |-> patterns]

\* One item of the patterns dict of pattern_plot.
Item(type, recs) == [type |-> type, recs |-> recs]

\* Arguments and locals of the four functions (pileup_plot has the locals of
\* pattern_plot: output, name, emplacement).
PatternPlotArgs(mat, patterns, output, name) ==
  [mat |-> mat, patterns |-> patterns, output |-> output, name |-> name]
PatternPlotLocals(output, name, emplacement) ==
  [output |-> output, name |-> name, emplacement |-> emplacement]
PileupArgs(mat, output, name) == [mat |-> mat, output |-> output, name |-> name]
DistanceArgs(matrices, labels, helpers) ==
  [matrices |-> matrices, labels |-> labels, helpers |-> helpers]
DistanceLocals(labels, matrix_list) == [labels |-> labels, matrix_list |-> matrix_list]
WholeArgs(mat, patterns, out, region, region2, blocking) ==
  [mat |-> mat, patterns |-> patterns, out |-> out, region |-> region,
   region2 |-> region2, blocking |-> blocking]
WholeLocals(s1, e1, s2, e2, pat) ==
  [s1 |-> s1, e1 |-> e1, s2 |-> s2, e2 |-> e2, pat |-> pat]
Filtered(patterns, pat) == [patterns |-> patterns, pat |-> pat]
Matrices(n, isArray, nans) == [n |-> n, isArray |-> isArray, nans |-> nans]
LoopEnd(res, evs, heap) == [result |-> res, events |-> evs, heap |-> heap]
Allocated(heap, dist) == [heap |-> heap, dist |-> dist]

(***************************************************************************)
(* The global pyplot state: a drawing call works on the current figure and *)
(* opens one when none is open; close("all") destroys all figures; show()  *)
(* opens and closes none by itself (on an interactive backend it waits for *)
(* the user to close the windows, see ShowReturns).                        *)
(***************************************************************************)
RECURSIVE FigsAfter(_, _)
FigsAfter(f, evs) ==
  IF evs = <<>> THEN f
  ELSE LET e == Head(evs)
           f1 == IF e.op = "close" THEN 0
                 ELSE IF e.op = "show" THEN f
                 ELSE Max(f, 1)
       IN FigsAfter(f1, Tail(evs))

(***************************************************************************)
(* pattern_plot                                                            *)
(***************************************************************************)
\* A pattern record is <<frame, pos1, pos2, score>>.

\* the test without the sentinel check
Plotted_no_sentinel(rec, name) == rec[1] = name

\* lines 35-37 and 42-44: the record is of this frame and is not "NA"
Plotted(rec, name) == rec[1] = name /\ rec[2] # NA

\* the inner for loops (34-39, 41-46): one marker per plotted record
RECURSIVE MarkersOf(_, _, _)
MarkersOf(recs, name, op) ==
  IF recs = <<>> THEN <<>>
  ELSE LET rec == Head(recs)
           here == IF Plotted(rec, name)
                   THEN <<Ev(op, rec[2], rec[3], <<>>)>>
                   ELSE <<>>
       IN here \o MarkersOf(Tail(recs), name, op)

\* the outer loop over patterns.items() (32-46); a dict is the sequence of
\* its items in insertion order
RECURSIVE PatternMarkers(_, _)
PatternMarkers(items, name) ==
  IF items = <<>> THEN <<>>
  ELSE LET it == Head(items)
           here == IF it.type = "borders" THEN MarkersOf(it.recs, name, "plot")
                   ELSE IF it.type = "loops" THEN MarkersOf(it.recs, name, "scatter")
                   ELSE <<>>
       IN here \o PatternMarkers(Tail(items), name)

pattern_plot(contact_map, patterns, output, name) ==
  LET name1 == IF name = PyNone THEN PyInt(0) ELSE name
      output1 == Path(output)
      drawn == <<Ev("imshow", contact_map, PyNone, <<>>),
                 Ev("title", name1, PyNone, <<>>),
                 Ev0("colorbar")>>
               \o PatternMarkers(patterns, name1)
      cal == Objs(contact_map, patterns)
  IN IF name1.k = "int"
     THEN LET emplacement == PathJoin(output1, <<str(name1.i + 1) \o ".2.pdf">>)
          IN Effect("return",
                    drawn \o <<Ev("savefig", PyNone, PyNone, emplacement),
                               Ev0("close")>>,
                    <<>>,
                    PatternPlotLocals(output1, name1, emplacement),
                    cal)
     ELSE \* line 48: str + int raises TypeError
          Effect("TypeError", drawn, <<>>,
                 PatternPlotLocals(output1, name1, <<>>), cal)

(***************************************************************************)
(* pileup_plot                                                             *)
(***************************************************************************)
pileup_plot(pileup_pattern, name, output) ==
  LET output1 == Path(output)
      emplacement == PathJoin(output1, <<name.s \o ".pdf">>)
  IN Effect("return",
            <<Ev("imshow", pileup_pattern, PyNone, <<>>),
              Ev("title", PyStr("pileup " \o name.s), PyNone, <<>>),
              Ev0("colorbar"),
              Ev("savefig", PyNone, PyNone, emplacement),
              Ev0("close")>>,
            <<>>,
            PatternPlotLocals(output1, name, emplacement),
            Objs(pileup_pattern, PyNone))

(***************************************************************************)
(* distance_plot                                                           *)
(***************************************************************************)
\* matrices is [n, isArray, nans]: one ndarray (n = 1) or a list of n of
\* them; nans[j] tells whether the distance law of the j-th matrix has NaN
\* entries, which is all the loop looks at in an array.  labels is
\* [k, s, list]: None, the str s, or the list of str.  helpers tells whether
\* the embedding environment has bound the module globals utils and
\* savgol_filter, which this file neither defines nor imports.
\*
\* Arrays live in a heap, a sequence of arrays addressed by position: the
\* caller's matrices are the first n, a new array is appended.

\* lines 60-63: the labels the loop zips with the matrices
LabelList(labels, n) ==
  IF labels.k = "none" THEN [j \in 1..n |-> PyInt(j - 1)]
  ELSE IF labels.k = "str" THEN <<PyStr(labels.s)>>
  ELSE labels.list

\* utils.distance_law(matrix), line 66: the curve of contact frequency by
\* genomic distance is computed into a new array; it has NaN entries where
\* the matrix gives them
distance_law(heap, matrix) == Allocated(Append(heap, heap[matrix]), Len(heap) + 1)

\* line 69, y[np.isnan(y)] = 0.0: written into the array y itself
ZeroNans(heap, y) == [heap EXCEPT ![y] = FALSE]

\* the body of the for loop (66-81) for the pairs from the j-th on
RECURSIVE DistanceLoop(_, _, _, _, _)
DistanceLoop(j, m, labels, helpers, heap) ==
  IF j > m THEN LoopEnd("return", <<>>, heap)
  ELSE IF ~helpers
  THEN \* line 66: the name utils is not defined
       LoopEnd("NameError", <<>>, heap)
  ELSE LET name == labels[j]
           law == distance_law(heap, j)
           y == law.dist
           heap1 == ZeroNans(law.heap, y)
           drawn == <<Ev0("plot"), Ev0("plot"), Ev0("plot"), Ev0("xlabel"),
                      Ev0("ylabel"), Ev0("xlim"), Ev0("ylim"), Ev0("loglog"),
                      Ev("title", name, PyNone, <<>>)>>
       IN IF name.k # "str"
          THEN \* line 80: pathlib.Path(int) raises TypeError
               LoopEnd("TypeError", drawn, heap1)
          ELSE LET rest == DistanceLoop(j + 1, m, labels, helpers, heap1)
               IN LoopEnd(rest.result,
                          drawn
                            \o <<Ev("savefig", PyNone, PyNone,
                                    PathJoin(Path(name), <<".pdf3">>)),
                                 Ev0("close")>>
                            \o rest.events,
                          rest.heap)

distance_plot(matrices, labels, helpers) ==
  LET matrix_list == IF matrices.isArray THEN 1 ELSE matrices.n
      labels1 == LabelList(labels, matrix_list)
      loop == DistanceLoop(1, Min(matrix_list, Len(labels1)), labels1, helpers,
                           matrices.nans)
  IN Effect(loop.result, loop.events, <<>>,
            DistanceLocals(labels1, matrix_list),
            Objs(Matrices(matrices.n, matrices.isArray,
                          SubSeq(loop.heap, 1, matrix_list)),
                 PyNone))

(***************************************************************************)
(* plot_whole_matrix and its decorator                                     *)
(***************************************************************************)
\* mat is its shape <<rows, columns>>; patterns is the sequence of the
\* <<bin1, bin2>> of the rows of the table; a region is <<start, end>> and
\* <<>> stands for None.

\* region alone selects rows only
Window_rows_only(shape, region, region2) ==
  IF region # <<>> /\ region2 = <<>>
  THEN <<region[1], region[2], 0, shape[2]>>
  ELSE IF region # <<>> /\ region2 # <<>>
  THEN <<region[1], region[2], region2[1], region2[2]>>
  ELSE <<0, shape[1], 0, shape[2]>>

\* lines 145-153: <<s1, e1, s2, e2>>
Window(shape, region, region2) ==
  IF region # <<>> /\ region2 = <<>>
  THEN <<region[1], region[2], region[1], region[2]>>
  ELSE IF region # <<>> /\ region2 # <<>>
  THEN <<region[1], region[2], region2[1], region2[2]>>
  ELSE <<0, shape[1], 0, shape[2]>>

\* line 157: the mask of the rows kept
InRegion(p, w) == p[1] > w[1] /\ p[1] < w[2] /\ p[2] > w[3] /\ p[2] < w[4]

\* lines 155-158: the rows are selected from a copy; the caller's table stays
FilterPatterns(patterns, w) ==
  Filtered(patterns, SelectSeq(patterns, LAMBDA p : InRegion(p, w)))

\* line 159: length of the slice [s:e] of an axis of n cells (0 <= s, e)
SliceLen(s, e, n) == Max(0, Min(e, n) - Min(s, n))

\* showing and saving
Output_both(out) ==
  <<Ev0("show"), Ev("savefig", PyNone, PyNone, Path(out))>>

\* lines 162-165
Output(out) ==
  IF out = PyNone THEN <<Ev0("show")>>
  ELSE <<Ev("savefig", PyNone, PyNone, Path(out))>>

\* a column of the table shifted to the window: pat.bin - start
RECURSIVE Shifted(_, _, _)
Shifted(pat, col, start) ==
  IF pat = <<>> THEN <<>>
  ELSE <<Head(pat)[col] - start>> \o Shifted(Tail(pat), col, start)

plot_whole_matrix(mat, patterns, out, region, region2) ==
  LET w == Window(mat, region, region2)
      f == FilterPatterns(patterns, w)
      pat == f.pat
      rows == SliceLen(w[1], w[2], mat[1])
      cols == SliceLen(w[3], w[4], mat[2])
  IN Effect("return",
            <<Ev("imshow", PyInt(rows), PyInt(cols), <<>>),
              Ev("scatter", Shifted(pat, 1, w[1]), Shifted(pat, 2, w[3]), <<>>)>>
            \o Output(out),
            <<>>,
            WholeLocals(w[1], w[2], w[3], w[4], pat),
            Objs(mat, f.patterns))

ImportMessage(fun_name) ==
  "The datashader package is required to use " \o fun_name
    \o ", please install it first"

\* the handler prints and then goes on to call fun
wrapped_no_raise(importable, fun_name, objs, eff) ==
  IF importable THEN eff
  ELSE [eff EXCEPT !.stdout = <<ImportMessage(fun_name)>>]

\* lines 107-109: a successful import binds the module global ds
ImportDatashader(importable, bound) ==
  IF importable THEN "datashader" ELSE bound

\* lines 105-117: eff is what fun(*args, **kwargs) does when it is called
wrapped(importable, fun_name, objs, eff) ==
  IF importable THEN eff
  ELSE Effect("ImportError", <<>>, <<ImportMessage(fun_name)>>, <<>>, objs)

(***************************************************************************)
(* Inputs                                                                  *)
(***************************************************************************)
Frames == {PyInt(0), PyStr("chr1")}
Names == {PyNone, PyInt(0), PyInt(1), PyStr("chr1")}
Outputs == {PyNone, PyStr("out")}
Records == {<<f, NA, NA, NA>> : f \in Frames}
           \cup {<<f, PyInt(3), PyInt(5), PyInt(1)>> : f \in Frames}
RecLists == SeqsUpTo(Records, MaxRecs)
KeyOrders == {<<>>, <<"borders">>, <<"loops", "borders">>,
              <<"hairpins", "loops">>, <<"borders", "hairpins">>}
PatternDicts ==
  UNION {{[j \in 1..Len(keys) |-> Item(keys[j], l[j])] :
            l \in [1..Len(keys) -> RecLists]} : keys \in KeyOrders}

PileupNames == {PyStr("pileup patterns"), PyStr("loops")}

LabelStrs == {"a", "b"}
LabelArgs == {[k |-> "none", s |-> "", list |-> <<>>]}
             \cup {[k |-> "str", s |-> t, list |-> <<>>] : t \in LabelStrs}
             \cup {[k |-> "list", s |-> "", list |-> l] :
                     l \in SeqsUpTo({PyStr(t) : t \in LabelStrs}, MaxLabels)}
MatrixArgs == {Matrices(1, TRUE, nans) : nans \in [1..1 -> BOOLEAN]}
              \cup UNION {{Matrices(n, FALSE, nans) : nans \in [1..n -> BOOLEAN]} :
                            n \in 0..MaxMats}

Shapes == (1..MaxDim) \X (1..MaxDim)
Bins == 0..MaxDim
Regions == {<<>>} \cup {<<s0, e0>> \in (0..MaxDim) \X (1..(MaxDim + 1)) : s0 < e0}
PatternTables == SeqsUpTo(Bins \X Bins, MaxPat)
Outs == {PyNone, PyStr("whole.pdf")}

(***************************************************************************)
(* The calls                                                               *)
(***************************************************************************)
Idle == fn = "none"

Finish(f, a, eff, bound) ==
  /\ fn' = f
  /\ args' = a
  /\ result' = eff.result
  /\ events' = eff.events
  /\ stdout' = eff.stdout
  /\ locals' = eff.locals
  /\ caller' = eff.caller
  /\ figs' = FigsAfter(figs, eff.events)
  /\ ds' = bound
  /\ UNCHANGED installed

CallPatternPlot ==
  /\ Idle
  /\ \E patterns \in PatternDicts, output \in Outputs, name \in Names :
       Finish("pattern_plot",
              PatternPlotArgs(PyStr("contact_map"), patterns, output, name),
              pattern_plot(PyStr("contact_map"), patterns, output, name),
              ds)

CallDistancePlot ==
  /\ Idle
  /\ \E matrices \in MatrixArgs, labels \in LabelArgs, helpers \in BOOLEAN :
       Finish("distance_plot",
              DistanceArgs(matrices, labels, helpers),
              distance_plot(matrices, labels, helpers),
              ds)

CallPileupPlot ==
  /\ Idle
  /\ \E name \in PileupNames, output \in Outputs :
       Finish("pileup_plot",
              PileupArgs(PyStr("pileup"), output, name),
              pileup_plot(PyStr("pileup"), name, output),
              ds)

\* The explored windows show at least one cell of the matrix.  With out None
\* on an interactive backend (blocking) the step ends inside plt.show(), line
\* 163: the figure is drawn and open and the call has not returned.
CallPlotWholeMatrix ==
  /\ Idle
  /\ \E mat \in Shapes, patterns \in PatternTables, out \in Outs,
        region \in Regions, region2 \in Regions, blocking \in BOOLEAN :
       LET w == Window(mat, region, region2)
           eff == wrapped(installed, "plot_whole_matrix", Objs(mat, patterns),
                          plot_whole_matrix(mat, patterns, out, region, region2))
           waits == blocking /\ eff.result = "return" /\ out = PyNone
       IN /\ w[1] < mat[1] /\ w[3] < mat[2]
          /\ Finish("plot_whole_matrix",
                    WholeArgs(mat, patterns, out, region, region2, blocking),
                    [eff EXCEPT !.result = IF waits THEN "waiting" ELSE @],
                    ImportDatashader(installed, ds))

\* The user has closed every window, which destroys the figures: plt.show()
\* returns and, being the last statement, so does plot_whole_matrix.
ShowReturns ==
  /\ fn = "plot_whole_matrix"
  /\ result = "waiting"
  /\ result' = "return"
  /\ figs' = 0
  /\ UNCHANGED <<fn, args, events, stdout, locals, caller, installed, ds>>

\* The caller is done with the finished call: its locals and its outcome go
\* away, the pyplot state stays.
Return ==
  /\ ~Idle
  /\ result # "waiting"
  /\ fn' = "none"
  /\ args' = <<>>
  /\ result' = "none"
  /\ events' = <<>>
  /\ stdout' = <<>>
  /\ locals' = <<>>
  /\ caller' = <<>>
  /\ UNCHANGED <<figs, installed, ds>>

Init ==
  /\ fn = "none"
  /\ args = <<>>
  /\ result = "none"
  /\ events = <<>>
  /\ stdout = <<>>
  /\ locals = <<>>
  /\ caller = <<>>
  /\ figs = 0
  /\ installed \in BOOLEAN
  /\ ds = "unbound"

Next ==
  \/ CallPatternPlot
  \/ CallDistancePlot
  \/ CallPileupPlot
  \/ CallPlotWholeMatrix
  \/ ShowReturns
  \/ Return

Spec == Init /\ [][Next]_vars

(***************************************************************************)
(* Properties                                                              *)
(***************************************************************************)
Returned(f) == fn = f /\ result = "return"

RECURSIVE Flatten(_)
Flatten(ss) == IF ss = <<>> THEN <<>> ELSE Head(ss) \o Flatten(Tail(ss))

\* the markers the records of one dict item call for
ItemMarkers(it, name) ==
  IF it.type \in {"borders", "loops"}
  THEN LET keep == SelectSeq(it.recs, LAMBDA r : r[1] = name /\ r[2] # NA)
           op == IF it.type = "borders" THEN "plot" ELSE "scatter"
       IN [j \in 1..Len(keep) |-> Ev(op, keep[j][2], keep[j][3], <<>>)]
  ELSE <<>>

\* C1: in pattern_plot the markers drawn are exactly, in order, one for each
\* record of patterns['borders'] and patterns['loops'] whose first field is
\* the frame name and whose second field is not "NA"; a record with the
\* sentinel and a record of another pattern type get no marker.
C1_SentinelSkipped ==
  fn = "pattern_plot" =>
    /\ OpsOf(events, {"plot", "scatter"})
         = Flatten([j \in 1..Len(args.patterns) |->
                      ItemMarkers(args.patterns[j], locals.name)])
    /\ \A j \in 1..Len(events) :
         events[j].op \in {"plot", "scatter"} => events[j].x # NA

\* a call where one record with the sentinel was skipped and another record
\* of the frame was drawn
C1_Witness ==
  /\ Returned("pattern_plot")
  /\ \E j \in 1..Len(args.patterns) :
       /\ args.patterns[j].type \in {"borders", "loops"}
       /\ \E r \in 1..Len(args.patterns[j].recs) :
            /\ args.patterns[j].recs[r][1] = locals.name
            /\ args.patterns[j].recs[r][2] = NA
  /\ Len(OpsOf(events, {"plot", "scatter"})) = 1

\* C2: in plot_whole_matrix the window <<s1, e1, s2, e2>> is: region for rows
\* and columns when only region is given; region for rows and region2 for
\* columns when both are given; the whole matrix when region is not given,
\* whatever region2 is.
C2_WindowResolved ==
  Returned("plot_whole_matrix") =>
    LET win == <<locals.s1, locals.e1, locals.s2, locals.e2>>
        r == args.region
        r2 == args.region2
    IN /\ (r # <<>> /\ r2 = <<>>) => win = <<r[1], r[2], r[1], r[2]>>
       /\ (r # <<>> /\ r2 # <<>>) => win = <<r[1], r[2], r2[1], r2[2]>>
       /\ r = <<>> => win = <<0, args.mat[1], 0, args.mat[2]>>

\* a call with region alone, off the origin, shown as a square on the diagonal
C2_Witness ==
  /\ Returned("plot_whole_matrix")
  /\ args.region # <<>> /\ args.region2 = <<>>
  /\ args.region[1] > 0
  /\ locals.s2 = args.region[1] /\ locals.e2 = args.region[2]

\* C3: when datashader cannot be imported, a call of plot_whole_matrix prints
\* the message naming plot_whole_matrix, ends with the ImportError, and makes
\* no pyplot call at all.
C3_ImportGuard ==
  (fn = "plot_whole_matrix" /\ ~installed) =>
    /\ result = "ImportError"
    /\ stdout = <<"The datashader package is required to use plot_whole_matrix, please install it first">>
    /\ events = <<>>

\* a call made without datashader
C3_Witness ==
  fn = "plot_whole_matrix" /\ ~installed /\ result = "ImportError" /\ stdout # <<>>

\* C4: a call of a rendering function that returns normally leaves no figure
\* open.
C4_FiguresClosed ==
  result = "return" => figs = 0

\* C5: pattern_plot saves exactly one file, for an int frame index as for a
\* str frame name, and for an index the file is <output>/<name+1>.2.pdf.
C5_OneFilePerFrame ==
  fn = "pattern_plot" =>
    LET saves == OpsOf(events, {"savefig"})
    IN /\ Len(saves) = 1
       /\ locals.name.k = "int" =>
            saves[1].path = PathJoin(Path(args.output),
                                     <<str(locals.name.i + 1) \o ".2.pdf">>)

\* C6: distance_plot saves exactly one file for each of the n matrices.
C6_OneFilePerMatrix ==
  fn = "distance_plot" =>
    Len(OpsOf(events, {"savefig"}))
      = (IF args.matrices.isArray THEN 1 ELSE args.matrices.n)

\* C7: the patterns overlaid by plot_whole_matrix are exactly those with
\* s1 <= bin1 < e1 and s2 <= bin2 < e2.
C7_SameRegion ==
  Returned("plot_whole_matrix") =>
    locals.pat = SelectSeq(args.patterns,
                           LAMBDA p : /\ locals.s1 <= p[1] /\ p[1] < locals.e1
                                      /\ locals.s2 <= p[2] /\ p[2] < locals.e2)

\* C8: a completed call of plot_whole_matrix makes exactly one output call,
\* savefig(out) when out is given and show() when it is not, and makes it
\* last, after imshow and scatter.
C8_OneOutput ==
  Returned("plot_whole_matrix") =>
    LET outs == OpsOf(events, {"savefig", "show"})
    IN /\ Len(outs) = 1
       /\ args.out # PyNone => outs[1].op = "savefig" /\ outs[1].path = <<args.out.s>>
       /\ args.out = PyNone => outs[1].op = "show"
       /\ Len(events) = 3
       /\ events[1].op = "imshow" /\ events[2].op = "scatter" /\ events[3] = outs[1]

\* a completed call that saved to out
C8_Witness ==
  /\ Returned("plot_whole_matrix")
  /\ args.out # PyNone
  /\ \E j \in 1..Len(events) : events[j].op = "savefig"

\* the caller's matrix (or matrices) and pattern collection are, after the
\* call, what was passed in
InputsUnchanged ==
  /\ fn \in {"pattern_plot", "plot_whole_matrix"} =>
       caller = Objs(args.mat, args.patterns)
  /\ fn = "pileup_plot" => caller = Objs(args.mat, PyNone)
  /\ fn = "distance_plot" => caller = Objs(args.matrices, PyNone)

\* C9: no rendering function mutates its inputs, and the only persistent
\* effect of a call is the image file: the program starts with no figure open
\* and the module global ds unbound, so whenever a call has returned the
\* caller's objects are what was passed in, no figure is open and ds is
\* unbound.
C9_OnlyTheImageFile ==
  result = "return" =>
    /\ InputsUnchanged
    /\ figs = 0
    /\ ds = "unbound"

\* C10: every marker of plot_whole_matrix lies inside the image of the
\* sub-matrix and on the cell of its pattern: x is the column of the pattern
\* in the sub-matrix and y its row.
C10_MarkerOnCell ==
  Returned("plot_whole_matrix") =>
    LET rows == events[1].x.i
        cols == events[1].y.i
    IN \A j \in 1..Len(locals.pat) :
         /\ events[2].x[j] \in 0..(cols - 1)
         /\ events[2].y[j] \in 0..(rows - 1)
         /\ events[2].x[j] = locals.pat[j][2] - locals.s2
         /\ events[2].y[j] = locals.pat[j][1] - locals.s1

====
